---- MODULE Spec2Model ----
(***************************************************************************)
(* Authorization-and-session gateway of the TMDB MCP server.               *)
(*                                                                         *)
(* The repository ships several near-identical entry points.  One server   *)
(* process runs exactly one of them; the variable `variant` says which.    *)
(*   part_002            OAuth 2.1 server: separate code/token/client maps,*)
(*                       PKCE, expiry, /mcp behind requireAuth             *)
(*   server-oauth.js     one shared `tokens` map, /mcp behind requireAuth  *)
(*   server-sse-oauth.js one shared `tokens` map, /sse and /messages       *)
(*   server-final.js     one shared `tokens` map, checkAuth, one transport *)
(*   server-http.js      no authorization, /mcp get-or-create registry     *)
(*   part_000            (second program) /sse + /messages with a registry *)
(*   server-chatgpt.js   (first program) tools only, key checked at start  *)
(*   part_001            TypeScript: /mcp registry, key checked at start   *)
(* Values are JavaScript values: a missing parameter is `undefined`.       *)
(***************************************************************************)
EXTENDS Integers, Sequences, FiniteSets, TLC

VARIABLES
    variant,             \* which entry point this process runs
    idBudget,            \* how many randomUUID() values this run may draw
    proc,                \* the process: its TMDB_API_KEY, whether it listens, outbound calls made
    tick,                \* number of clock readings so far
    now,                 \* Date.now(), in milliseconds
    nextId,              \* number of randomUUID() values drawn so far, plus one
    authorizationCodes,  \* part_002: Map code -> record
    accessTokens,        \* part_002: Map token -> record
    clients,             \* part_002: Map client_id -> record
    tokens,              \* shared-map variants: Map value -> record
    transports,          \* session registry: session id -> transport
    nextTransport,       \* number of transports constructed so far, plus one
    streams,             \* response streams handed to a transport, in order
    inflight,            \* handler invocations suspended at an await, in order
    exchanged,           \* history: codes that were exchanged successfully
    advertised,          \* history: for each access token returned, the time its
                         \* lifetime ends by the expires_in of the token response
    last                 \* the last request and the response it got

vars == <<variant, idBudget, proc, tick, now, nextId, authorizationCodes, accessTokens, clients,
          tokens, transports, nextTransport, streams, inflight, exchanged, advertised,
          last>>

oauthVars == <<authorizationCodes, accessTokens, clients, tokens>>
sessionVars == <<transports, nextTransport, streams, inflight>>

----------------------------------------------------------------------------
(* Bounds of the model *)

MaxIds == 2          \* randomUUID() values drawn in one run (one more in ReplaySpec)
MaxTicks == 3        \* clock readings after the first in one run
MaxTransports == 2   \* transports constructed in one run
MaxStreams == 2      \* response streams opened in one run
MaxCalls == 2        \* outbound calls to the TMDB API in one run
MaxInflight == 2     \* handler invocations suspended at the same time
MaxRecords == 11     \* records in the longest list the TMDB API answers a search with

----------------------------------------------------------------------------
(* JavaScript values *)

NoValue == "undefined"

Falsy(v) == v \in {NoValue, ""}

\* a || b
OrElse(a, b) == IF Falsy(a) THEN b ELSE a

\* destructuring default: { a = d } = obj
DefaultTo(a, d) == IF a = NoValue THEN d ELSE a

\* the n-th value randomUUID() returns in this process
UUID(n) == "uuid-" \o ToString(n)

Issued == {UUID(n) : n \in 1..(nextId - 1)}

EmptyMap == [k \in {} |-> NoValue]

MapSet(m, k, v) == [x \in (DOMAIN m) \cup {k} |-> IF x = k THEN v ELSE m[x]]

MapDelete(m, k) == [x \in (DOMAIN m) \ {k} |-> m[x]]

MapHas(m, k) == k \in DOMAIN m

----------------------------------------------------------------------------
(* Program constants *)

CODE_TTL_MS == 600000
TOKEN_TTL_MS == 3600000
EXPIRES_IN == 3600

DEFAULT_CLIENT_ID == "tmdb-mcp-client"
DEFAULT_SCOPE == "tmdb:read"

DEFAULT_CLIENT ==
    [client_id |-> DEFAULT_CLIENT_ID, scope |-> DEFAULT_SCOPE]

V_OAUTH21 == "part_002"
V_OAUTH == "server-oauth.js"
V_SSE_OAUTH == "server-sse-oauth.js"
V_FINAL == "server-final.js"
V_HTTP == "server-http.js"
V_SSE == "part_000"
V_CHATGPT == "server-chatgpt.js"
V_TS == "part_001"

SharedMapVariants == {V_OAUTH, V_SSE_OAUTH, V_FINAL}
OAuthVariants == {V_OAUTH21} \cup SharedMapVariants
Variants == OAuthVariants \cup {V_HTTP, V_SSE, V_CHATGPT, V_TS}

\* the entry points that keep a registry of transports by session id
McpVariants == {V_OAUTH21, V_OAUTH, V_HTTP}

\* the transport server-final.js constructs once, at start-up
GLOBAL_TRANSPORT == 0

\* a transport server-sse-oauth.js constructs inside app.post('/messages') for
\* that one request: it is stored nowhere and is given no response stream
REQUEST_TRANSPORT == -1

----------------------------------------------------------------------------
(* URLs.  A URL string is kept as its scheme, the rest up to the query and  *)
(* the query parameters in order; a string without a scheme has scheme "". *)

MkURL(scheme, rest, query) == [scheme |-> scheme, rest |-> rest, query |-> query]

\* String(undefined), what new URL(undefined) is given
UndefinedURL == MkURL("", NoValue, <<>>)
RelativeURL == MkURL("", "/oauth/callback", <<>>)
CallbackURL == MkURL("https", "//example.com/cb", <<>>)
CallbackWithCodeURL == MkURL("https", "//example.com/cb", <<<<"code", "stale">>>>)
NoURL == MkURL("", "", <<>>)

\* new URL(s) without a base throws a TypeError unless s has a scheme
URLParses(u) == u.scheme # ""

RECURSIVE DropKey(_, _)
DropKey(q, k) ==
    IF q = <<>> THEN <<>>
    ELSE IF Head(q)[1] = k THEN DropKey(Tail(q), k)
    ELSE <<Head(q)>> \o DropKey(Tail(q), k)

RECURSIVE SetFirst(_, _, _)
SetFirst(q, k, v) ==
    IF q = <<>> THEN <<>>
    ELSE IF Head(q)[1] = k THEN <<<<k, v>>>> \o DropKey(Tail(q), k)
    ELSE <<Head(q)>> \o SetFirst(Tail(q), k, v)

HasKey(q, k) == \E i \in 1..Len(q) : q[i][1] = k

\* url.searchParams.set(k, v): replace the first k and drop the others, or append
SearchParamsSet(u, k, v) ==
    [u EXCEPT !.query = IF HasKey(u.query, k) THEN SetFirst(u.query, k, v)
                        ELSE Append(u.query, <<k, v>>)]

----------------------------------------------------------------------------
(* PKCE *)

\* crypto.createHash('sha256').update(v).digest('base64url')
Sha256Base64Url(v) ==
    CASE v = "" -> "47DEQpj8HBSa-_TImW-5JCeuQeRkm5NMpJWZG3hSuFU"
      [] v = "v1" -> "O_wmlZTvZJIo6adLqwDwQu_JHVrMb77jGjgugNQjiP4"
      [] v = "v2" -> "-wTctpcOTD0Yc95R_VpQ17tGszgxE2AmZcNQ7EC1-ZA"

Verifiers == {"", "v1", "v2"}

----------------------------------------------------------------------------
(* Requests and responses *)

NoHeader == [scheme |-> NoValue, cred |-> NoValue]

\* req.headers.authorization, as its scheme and what follows "<scheme> "
Headers ==
    {NoHeader}
    \cup {[scheme |-> "Basic", cred |-> c] : c \in {"dXNlcjpwdw"}}
    \cup {[scheme |-> "Bearer", cred |-> c] : c \in Issued \cup {"bogus"}}

\* authHeader.startsWith('Bearer ')
StartsWithBearer(h) == h.scheme = "Bearer"

\* the last request (op; redirect_uri, presented, verifier, client, secret, grant, state,
\* scheme, sent: what it carried) and its response (status, error, minted, location, scope,
\* expires_in, token_type),
\* with what the handler did (gate, session, transport, known, created, dispatched, and
\* header: the Mcp-Session-Id it set on the response); for a result that was sent,
\* delivered: the streams it was written to;
\* for a tool call its name, what the TMDB API did (upstream) and how the handler
\* ended (outcome: a result envelope with is_error and text, or an Error thrown
\* with message text), with the JSON body the API answered (body) and the value
\* the text block is the JSON.stringify of (result)
Resp0 ==
    [op |-> "init", status |-> 0, error |-> NoValue,
     redirect_uri |-> NoURL, presented |-> NoValue, verifier |-> NoValue,
     client |-> NoValue, secret |-> NoValue, grant |-> NoValue, state |-> NoValue,
     scheme |-> NoValue, sent |-> NoValue,
     minted |-> NoValue, location |-> NoURL, scope |-> NoValue, expires_in |-> 0,
     token_type |-> NoValue,
     gate |-> "none", session |-> NoValue, transport |-> 0, header |-> NoValue,
     known |-> FALSE, created |-> FALSE, dispatched |-> FALSE, delivered |-> {},
     tool |-> NoValue, upstream |-> NoValue, outcome |-> "none",
     is_error |-> FALSE, text |-> NoValue,
     body |-> [has_results |-> FALSE, results |-> <<>>],
     result |-> [shape |-> "none", entries |-> <<>>,
                 payload |-> [has_results |-> FALSE, results |-> <<>>]]]

\* what the authorize endpoint is asked, as the query parameters it reads
AuthorizeRequests ==
    { [client_id |-> NoValue, redirect_uri |-> CallbackURL, scope |-> NoValue,
       state |-> NoValue, code_challenge |-> NoValue],
      [client_id |-> "rogue", redirect_uri |-> CallbackWithCodeURL,
       scope |-> "tmdb:write", state |-> "xyz",
       code_challenge |-> Sha256Base64Url("v1")],
      [client_id |-> DEFAULT_CLIENT_ID, redirect_uri |-> RelativeURL, scope |-> NoValue,
       state |-> "xyz", code_challenge |-> ""],
      [client_id |-> NoValue, redirect_uri |-> UndefinedURL, scope |-> NoValue,
       state |-> NoValue, code_challenge |-> NoValue],
      [client_id |-> NoValue, redirect_uri |-> CallbackURL, scope |-> NoValue,
       state |-> "", code_challenge |-> NoValue] }

GrantTypes == {"authorization_code", "client_credentials", "refresh_token", NoValue}

\* what the token endpoint is asked, as the body fields it reads; a field the
\* grant does not read is left out of the request
TokenRequests ==
    [grant_type : {"authorization_code"},
     code : Issued \cup {"bogus"},
     client_id : {NoValue, "rogue"},
     client_secret : {NoValue},
     code_verifier : Verifiers \cup {NoValue}]
    \cup [grant_type : {"client_credentials"},
          code : {NoValue},
          client_id : {NoValue, "rogue"},
          client_secret : {NoValue, "wrong"},
          code_verifier : {NoValue}]
    \cup [grant_type : GrantTypes \ {"authorization_code", "client_credentials"},
          code : {NoValue},
          client_id : {NoValue, "rogue"},
          client_secret : {NoValue},
          code_verifier : {NoValue}]

----------------------------------------------------------------------------
(* Start-up *)

API_KEY == "k3y"

\* process.env.TMDB_API_KEY: set or not
ApiKeys == {NoValue, API_KEY}

\* if (!TMDB_API_KEY) { ...; process.exit(1) } at the top of server-chatgpt.js
\* and part_001; the other entry points read the variable in the tool handler only
StartupPhase(entry, key) ==
    IF entry \in {V_CHATGPT, V_TS} /\ Falsy(key) THEN "exited" ELSE "listening"

----------------------------------------------------------------------------
\* the k-th reading of the clock: 0 and 10 minutes, then the same after each
\* further hour, so that both lifetimes are met exactly and passed
ClockAt(k) == (k \div 2) * TOKEN_TTL_MS + (k % 2) * CODE_TTL_MS

Init ==
    /\ variant \in Variants
    /\ idBudget \in {MaxIds, MaxIds + 1}
    /\ proc \in {[TMDB_API_KEY |-> key, phase |-> StartupPhase(variant, key), calls |-> 0] :
                    key \in ApiKeys}
    /\ tick = 0
    /\ now = ClockAt(0)
    /\ nextId = 1
    /\ authorizationCodes = EmptyMap
    /\ accessTokens = EmptyMap
    /\ clients = [k \in {DEFAULT_CLIENT_ID} |-> DEFAULT_CLIENT]
    /\ tokens = EmptyMap
    /\ transports = EmptyMap
    /\ nextTransport = 1
    /\ streams = <<>>
    /\ inflight = <<>>
    /\ exchanged = {}
    /\ advertised = EmptyMap
    /\ last = Resp0

\* the clock moves on between two requests
Tick ==
    /\ tick < MaxTicks
    /\ tick' = tick + 1
    /\ now' = ClockAt(tick + 1)
    /\ last' = [Resp0 EXCEPT !.op = "tick"]
    /\ UNCHANGED <<variant, idBudget, proc, nextId, oauthVars, sessionVars, exchanged, advertised>>

----------------------------------------------------------------------------
(* part_002: OAuth 2.1 server with separate stores *)

\* POST /oauth/register
Register ==
    /\ variant = V_OAUTH21
    /\ nextId + 1 <= idBudget
    /\ LET id == UUID(nextId)
       IN /\ clients' = MapSet(clients, id, [client_id |-> id, scope |-> DEFAULT_SCOPE])
          /\ last' = [Resp0 EXCEPT !.op = "register", !.status = 200, !.minted = id]
    /\ nextId' = nextId + 2
    /\ UNCHANGED <<variant, idBudget, proc, tick, now, authorizationCodes, accessTokens, tokens,
                   sessionVars, exchanged, advertised>>

\* the record authorizationCodes.set(authCode, {...}) stores
AuthCodeRecord(req) ==
    [client_id |-> OrElse(req.client_id, DEFAULT_CLIENT_ID),
     redirect_uri |-> req.redirect_uri,
     scope |-> DefaultTo(req.scope, DEFAULT_SCOPE),
     code_challenge |-> req.code_challenge,
     code_challenge_method |-> "S256",
     expires_at |-> now + CODE_TTL_MS]

\* callbackUrl with code, and state when it is truthy
CallbackWith(redirect_uri, code, state) ==
    LET withCode == SearchParamsSet(redirect_uri, "code", code)
    IN IF Falsy(state) THEN withCode ELSE SearchParamsSet(withCode, "state", state)

\* the try/catch around new URL(redirect_uri) and res.redirect
AuthorizeResponse(req, authCode) ==
    IF URLParses(req.redirect_uri)
    THEN [Resp0 EXCEPT !.op = "authorize", !.status = 302, !.minted = authCode,
                       !.redirect_uri = req.redirect_uri, !.state = req.state,
                       !.location = CallbackWith(req.redirect_uri, authCode, req.state)]
    ELSE [Resp0 EXCEPT !.op = "authorize", !.status = 400, !.minted = authCode,
                       !.redirect_uri = req.redirect_uri, !.state = req.state,
                       !.error = "invalid_redirect_uri"]

\* GET /oauth/authorize
Authorize(req) ==
    /\ variant = V_OAUTH21
    /\ nextId <= idBudget
    /\ LET authCode == UUID(nextId)
       IN /\ authorizationCodes' = MapSet(authorizationCodes, authCode, AuthCodeRecord(req))
          /\ last' = AuthorizeResponse(req, authCode)
    /\ nextId' = nextId + 1
    /\ UNCHANGED <<variant, idBudget, proc, tick, now, accessTokens, clients, tokens, sessionVars, exchanged, advertised>>

\* the exchange with the delete left out
ConsumeCodeKept(codes, code) == codes

\* authorizationCodes.delete(code)
ConsumeCode(codes, code) == MapDelete(codes, code)

\* !authData || authData.expires_at < Date.now()
CodeRejected(code) ==
    \/ ~MapHas(authorizationCodes, code)
    \/ authorizationCodes[code].expires_at < now

\* the PKCE block: true when it returns invalid_grant
PkceRejected(authData, code_verifier) ==
    /\ ~Falsy(authData.code_challenge)
    /\ ~Falsy(code_verifier)
    /\ Sha256Base64Url(code_verifier) # authData.code_challenge

\* the token response says expires_in seconds: the lifetime ends that long
\* after the response was made
Advertise(accessToken, expires_in) ==
    MapSet(advertised, accessToken, now + expires_in * 1000)

TokenError(req, status, error) ==
    [Resp0 EXCEPT !.op = "token", !.status = status, !.error = error,
                  !.presented = req.code, !.verifier = req.code_verifier,
                  !.client = req.client_id, !.secret = req.client_secret,
                  !.grant = req.grant_type]

TokenSuccess(req, accessToken, scope) ==
    [Resp0 EXCEPT !.op = "token", !.status = 200, !.minted = accessToken,
                  !.presented = req.code, !.verifier = req.code_verifier,
                  !.client = req.client_id, !.secret = req.client_secret,
                  !.grant = req.grant_type, !.token_type = "Bearer",
                  !.scope = scope, !.expires_in = EXPIRES_IN]

\* a client_credentials token that lives as long as an authorization code
ShortLivedRecord(req) ==
    [client_id |-> OrElse(req.client_id, DEFAULT_CLIENT_ID),
     scope |-> DEFAULT_SCOPE,
     expires_at |-> now + CODE_TTL_MS]

\* the record accessTokens.set(accessToken, {...}) stores for client credentials
ClientCredentialsRecord(req) ==
    [client_id |-> OrElse(req.client_id, DEFAULT_CLIENT_ID),
     scope |-> DEFAULT_SCOPE,
     expires_at |-> now + TOKEN_TTL_MS]

\* grant_type === 'client_credentials'
ClientCredentialsGrant(req) ==
    /\ nextId <= idBudget
    /\ LET accessToken == UUID(nextId)
       IN /\ accessTokens' = MapSet(accessTokens, accessToken, ClientCredentialsRecord(req))
          /\ last' = TokenSuccess(req, accessToken, DEFAULT_SCOPE)
    /\ nextId' = nextId + 1
    /\ advertised' = Advertise(UUID(nextId), last'.expires_in)
    /\ UNCHANGED <<authorizationCodes, exchanged>>

\* a token record bound to the client the token request names
RequestTokenRecord(authData, req) ==
    [client_id |-> OrElse(req.client_id, DEFAULT_CLIENT_ID),
     scope |-> DEFAULT_SCOPE,
     expires_at |-> now + TOKEN_TTL_MS]

\* the record accessTokens.set(accessToken, {...}) stores for an exchanged code
CodeTokenRecord(authData, req) ==
    [client_id |-> authData.client_id,
     scope |-> authData.scope,
     expires_at |-> now + TOKEN_TTL_MS]

\* a token endpoint that burns the code of an exchange it refuses
BurnRefusedCode(codes, code) == MapDelete(codes, code)

\* return res.status(400).json({ error: 'invalid_grant', ... }): both refusals
\* return before authorizationCodes.delete(code)
KeepRefusedCode(codes, code) == codes

\* grant_type === 'authorization_code'
AuthorizationCodeGrant(req) ==
    IF CodeRejected(req.code)
    THEN /\ last' = TokenError(req, 400, "invalid_grant")
         /\ authorizationCodes' = KeepRefusedCode(authorizationCodes, req.code)
         /\ UNCHANGED <<nextId, accessTokens, exchanged, advertised>>
    ELSE LET authData == authorizationCodes[req.code]
         IN IF PkceRejected(authData, req.code_verifier)
            THEN /\ last' = TokenError(req, 400, "invalid_grant")
                 /\ authorizationCodes' = KeepRefusedCode(authorizationCodes, req.code)
                 /\ UNCHANGED <<nextId, accessTokens, exchanged, advertised>>
            ELSE /\ nextId <= idBudget
                 /\ authorizationCodes' = ConsumeCode(authorizationCodes, req.code)
                 /\ accessTokens' = MapSet(accessTokens, UUID(nextId),
                                           CodeTokenRecord(authData, req))
                 /\ last' = TokenSuccess(req, UUID(nextId), authData.scope)
                 /\ nextId' = nextId + 1
                 /\ exchanged' = exchanged \cup {req.code}
                 /\ advertised' = Advertise(UUID(nextId), last'.expires_in)

\* a token endpoint that takes every grant but authorization_code for client_credentials
NotAuthorizationCode(grant_type) == grant_type # "authorization_code"

\* grant_type === 'client_credentials'
IsClientCredentials(grant_type) == grant_type = "client_credentials"

\* POST /oauth/token
Token(req) ==
    /\ variant = V_OAUTH21
    /\ CASE IsClientCredentials(req.grant_type) -> ClientCredentialsGrant(req)
         [] req.grant_type = "authorization_code" -> AuthorizationCodeGrant(req)
         [] OTHER ->
              /\ last' = TokenError(req, 400, "unsupported_grant_type")
              /\ UNCHANGED <<nextId, authorizationCodes, accessTokens, exchanged, advertised>>
    /\ UNCHANGED <<variant, idBudget, proc, tick, now, clients, tokens, sessionVars>>

\* a gate that drops the record of the credential it was shown
AfterGateEvict(store, auth) ==
    IF MapHas(store, auth.cred) THEN MapDelete(store, auth.cred) ELSE store

\* what a gate leaves of a store it reads: none of them calls set or delete
AfterGate(store, auth) == store

GatePassed(auth) ==
    /\ authorizationCodes' = AfterGate(authorizationCodes, auth)
    /\ accessTokens' = AfterGate(accessTokens, auth)
    /\ clients' = AfterGate(clients, auth)
    /\ tokens' = AfterGate(tokens, auth)

GateNext == [admit |-> TRUE, status |-> 0, error |-> NoValue]
GateReject(status, error) == [admit |-> FALSE, status |-> status, error |-> error]

\* function requireAuth(req, res, next)
requireAuth(authHeader) ==
    IF ~StartsWithBearer(authHeader)
    THEN GateReject(401, "invalid_token")
    ELSE LET token == authHeader.cred
         IN IF ~MapHas(accessTokens, token) \/ accessTokens[token].expires_at < now
            THEN GateReject(401, "invalid_token")
            ELSE GateNext

----------------------------------------------------------------------------
(* server-oauth.js, server-sse-oauth.js, server-final.js: one shared map *)

\* client_id || 'default' (server-final.js: 'chatgpt')
FallbackClient == IF variant = V_FINAL THEN "chatgpt" ELSE "default"

\* the record tokens.set(code, {...}) stores for an authorization code
SimpleCodeRecord(req) ==
    [type |-> NoValue,
     client_id |-> OrElse(req.client_id, FallbackClient),
     scope |-> OrElse(req.scope, "read"),
     created_at |-> now]

\* new URL(redirect_uri) is not guarded: a TypeError reaches Express, which answers 500
SimpleAuthorizeResponse(req, code) ==
    IF URLParses(req.redirect_uri)
    THEN [Resp0 EXCEPT !.op = "authorize", !.status = 302, !.minted = code,
                       !.redirect_uri = req.redirect_uri, !.state = req.state,
                       !.location = CallbackWith(req.redirect_uri, code, req.state)]
    ELSE [Resp0 EXCEPT !.op = "authorize", !.status = 500, !.minted = code,
                       !.redirect_uri = req.redirect_uri, !.state = req.state,
                       !.error = "TypeError"]

\* GET /oauth/authorize
SimpleAuthorize(req) ==
    /\ variant \in SharedMapVariants
    /\ nextId <= idBudget
    /\ LET code == UUID(nextId)
       IN /\ tokens' = MapSet(tokens, code, SimpleCodeRecord(req))
          /\ last' = SimpleAuthorizeResponse(req, code)
    /\ nextId' = nextId + 1
    /\ UNCHANGED <<variant, idBudget, proc, tick, now, authorizationCodes, accessTokens, clients,
                   sessionVars, exchanged, advertised>>

\* tokens.set(accessToken, {...}); tokens.delete(code)
SimpleExchange(code, accessToken) ==
    ConsumeCode(MapSet(tokens, accessToken,
                       [type |-> "access_token",
                        client_id |-> tokens[code].client_id,
                        scope |-> tokens[code].scope,
                        created_at |-> now]),
                code)

\* POST /oauth/token
SimpleToken(req) ==
    /\ variant \in SharedMapVariants
    /\ IF req.grant_type # "authorization_code"
       THEN /\ last' = TokenError(req, 400, "unsupported_grant_type")
            /\ UNCHANGED <<nextId, tokens, exchanged, advertised>>
       ELSE IF ~MapHas(tokens, req.code)
       THEN /\ last' = TokenError(req, 400, "invalid_grant")
            /\ UNCHANGED <<nextId, tokens, exchanged, advertised>>
       ELSE /\ nextId <= idBudget
            /\ tokens' = SimpleExchange(req.code, UUID(nextId))
            /\ last' = TokenSuccess(req, UUID(nextId), tokens[req.code].scope)
            /\ nextId' = nextId + 1
            /\ exchanged' = exchanged \cup {req.code}
            /\ advertised' = Advertise(UUID(nextId), last'.expires_in)
    /\ UNCHANGED <<variant, idBudget, proc, tick, now, authorizationCodes, accessTokens, clients, sessionVars>>

\* a gate that takes every stored record for a token
IsStoredRecord(tokenData) == TRUE

\* tokenData.type === 'access_token'
IsAccessToken(tokenData) == tokenData.type = "access_token"

\* function requireAuth(req, res, next) of server-oauth.js and server-sse-oauth.js
requireAuthSimple(auth) ==
    IF ~StartsWithBearer(auth)
    THEN GateReject(401, "unauthorized")
    ELSE LET token == auth.cred
         IN IF ~MapHas(tokens, token) \/ ~IsAccessToken(tokens[token])
            THEN GateReject(401, "invalid_token")
            ELSE GateNext

\* function checkAuth(req) of server-final.js
checkAuth(auth) ==
    IF ~StartsWithBearer(auth)
    THEN FALSE
    ELSE LET token == auth.cred
         IN MapHas(tokens, token) /\ IsAccessToken(tokens[token])

\* if (!checkAuth(req)) return res.status(401).json({ error: 'unauthorized' })
checkAuthCaller(auth) ==
    IF checkAuth(auth) THEN GateNext ELSE GateReject(401, "unauthorized")

\* the inline check of GET /sse in server-sse-oauth.js
sseInlineCheck(auth) ==
    IF auth.scheme # NoValue
    THEN IF StartsWithBearer(auth)
         THEN LET token == auth.cred
              IN IF ~MapHas(tokens, token) \/ ~IsAccessToken(tokens[token])
                 THEN GateReject(401, "invalid_token")
                 ELSE GateNext
         ELSE GateNext
    ELSE GateNext

----------------------------------------------------------------------------
(* Session endpoints *)

\* what a client may send as mcp-session-id or ?sessionId
SessionInputs ==
    {NoValue, "s1"} \cup DOMAIN transports
    \cup {streams[i].sid : i \in 1..Len(streams)}

\* the middleware in front of /mcp: requireAuth in part_002 and server-oauth.js,
\* none in server-http.js
McpGate(auth) ==
    CASE variant = V_OAUTH21 -> requireAuth(auth)
      [] variant = V_OAUTH -> requireAuthSimple(auth)
      [] OTHER -> GateNext

GateLabel(g) ==
    IF variant \in OAuthVariants
    THEN (IF g.admit THEN "next" ELSE "rejected")
    ELSE "none"

Rejected(op, auth, g) ==
    [Resp0 EXCEPT !.op = op, !.status = g.status, !.error = g.error,
                  !.gate = GateLabel(g), !.scheme = auth.scheme,
                  !.presented = auth.cred]

\* a registry that binds a new transport on every request
GetOrReplace(reg, sessionId, fresh) == MapSet(reg, sessionId, fresh)

\* if (transports[sessionId]) { reuse } else { new transport; transports[sessionId] = transport }
GetOrCreate(reg, sessionId, fresh) ==
    IF MapHas(reg, sessionId) THEN reg ELSE MapSet(reg, sessionId, fresh)

\* app.post('/mcp') and app.get('/mcp'): the handler behind the middleware
McpHandler(op, auth, header) ==
    LET drawn == Falsy(header)
        sessionId == IF drawn THEN UUID(nextId) ELSE header
        known == MapHas(transports, sessionId)
        reg == GetOrCreate(transports, sessionId, nextTransport)
    IN /\ drawn => nextId <= idBudget
       /\ ~known => nextTransport <= MaxTransports
       /\ op = "mcp_get" => Len(streams) < MaxStreams
       /\ nextId' = IF drawn THEN nextId + 1 ELSE nextId
       /\ nextTransport' = IF known THEN nextTransport ELSE nextTransport + 1
       /\ transports' = reg
       /\ streams' = IF op = "mcp_get"
                     THEN Append(streams, [sid |-> sessionId, transport |-> reg[sessionId],
                                           open |-> TRUE, connected |-> FALSE])
                     ELSE streams
       /\ last' = [Resp0 EXCEPT !.op = op, !.status = 200,
                                !.gate = GateLabel(GateNext),
                                !.scheme = auth.scheme, !.presented = auth.cred,
                                !.sent = header, !.known = known,
                                !.session = sessionId, !.transport = reg[sessionId],
                                !.header = sessionId,
                                !.created = ~known,
                                !.dispatched = (op = "mcp_post")]
       /\ UNCHANGED inflight

McpRequest(op, auth, header) ==
    /\ variant \in McpVariants
    /\ IF McpGate(auth).admit
       THEN McpHandler(op, auth, header)
       ELSE /\ last' = [Rejected(op, auth, McpGate(auth)) EXCEPT !.sent = header]
            /\ UNCHANGED <<nextId, sessionVars>>
    /\ GatePassed(auth)
    /\ UNCHANGED <<variant, idBudget, proc, tick, now, exchanged, advertised>>

\* app.post('/mcp', ...)
McpPost(auth, header) == McpRequest("mcp_post", auth, header)

\* app.get('/mcp', ...)
McpGet(auth, header) == McpRequest("mcp_get", auth, header)

\* the sequence without its k-th element
RemoveAt(s, k) == SubSeq(s, 1, k - 1) \o SubSeq(s, k + 1, Len(s))

\* part_001, app.post('/mcp') up to its first await: a request whose session id
\* has a transport is handed to it at once, with no header set; for any other
\* id a transport is constructed and stored, and the handler waits for
\* mcpServer.connect(transport)
TsMcpPost(header) ==
    /\ variant = V_TS
    /\ LET drawn == Falsy(header)
           sessionId == IF drawn THEN UUID(nextId) ELSE header
           known == MapHas(transports, sessionId)
           reg == GetOrCreate(transports, sessionId, nextTransport)
       IN /\ drawn => nextId <= idBudget
          /\ ~known => (nextTransport <= MaxTransports /\ Len(inflight) < MaxInflight)
          /\ nextId' = IF drawn THEN nextId + 1 ELSE nextId
          /\ nextTransport' = IF known THEN nextTransport ELSE nextTransport + 1
          /\ transports' = reg
          /\ inflight' = IF known THEN inflight
                         ELSE Append(inflight, [kind |-> "connect", sid |-> sessionId,
                                                transport |-> reg[sessionId], sent |-> header])
          /\ last' = [Resp0 EXCEPT !.op = "mcp_post", !.status = IF known THEN 200 ELSE 0,
                                   !.sent = header, !.known = known,
                                   !.session = sessionId, !.transport = reg[sessionId],
                                   !.created = ~known, !.dispatched = known]
    /\ UNCHANGED <<variant, idBudget, proc, tick, now, oauthVars, streams, exchanged, advertised>>

\* part_001, app.post('/mcp') from the await on: res.setHeader('mcp-session-id',
\* sessionId) and transport.handleRequest, or the catch block when connect failed
TsMcpResume(k, connectOk) ==
    /\ variant = V_TS
    /\ k \in 1..Len(inflight)
    /\ inflight[k].kind = "connect"
    /\ inflight' = RemoveAt(inflight, k)
    /\ last' = IF connectOk
               THEN [Resp0 EXCEPT !.op = "mcp_post", !.status = 200,
                                  !.sent = inflight[k].sent,
                                  !.session = inflight[k].sid,
                                  !.transport = inflight[k].transport,
                                  !.header = inflight[k].sid,
                                  !.created = TRUE, !.dispatched = TRUE]
               ELSE [Resp0 EXCEPT !.op = "mcp_post", !.status = 500,
                                  !.error = "Internal server error",
                                  !.sent = inflight[k].sent,
                                  !.session = inflight[k].sid,
                                  !.transport = inflight[k].transport,
                                  !.created = TRUE]
    /\ UNCHANGED <<variant, idBudget, proc, tick, now, nextId, oauthVars, transports,
                   nextTransport, streams, exchanged, advertised>>

\* part_001, app.get('/mcp'): 405, whatever the request carries
TsMcpGet ==
    /\ variant = V_TS
    /\ last' = [Resp0 EXCEPT !.op = "mcp_get", !.status = 405,
                             !.error = "Method not allowed. Use POST for requests."]
    /\ UNCHANGED <<variant, idBudget, proc, tick, now, nextId, oauthVars, sessionVars, exchanged, advertised>>

\* part_000, app.get('/sse'): a transport per connection, registered under the
\* session id the transport drew, removed when the response closes
SseConnect(connectOk) ==
    /\ variant = V_SSE
    /\ nextId <= idBudget
    /\ nextTransport <= MaxTransports
    /\ Len(streams) < MaxStreams
    /\ LET sessionId == UUID(nextId)
       IN /\ transports' = MapSet(transports, sessionId, nextTransport)
          /\ streams' = Append(streams, [sid |-> sessionId, transport |-> nextTransport,
                                         open |-> TRUE, connected |-> connectOk])
          /\ last' = [Resp0 EXCEPT !.op = "sse", !.status = IF connectOk THEN 200 ELSE 500,
                                   !.session = sessionId, !.transport = nextTransport,
                                   !.created = TRUE]
    /\ nextId' = nextId + 1
    /\ nextTransport' = nextTransport + 1
    /\ UNCHANGED <<variant, idBudget, proc, tick, now, oauthVars, inflight, exchanged, advertised>>

\* a transport that writes to every open response stream of the process
EveryOpenStream(transport) ==
    {i \in 1..Len(streams) : streams[i].open}

\* the open response streams a transport was given: what it sends goes there
BoundStreams(transport) ==
    {i \in 1..Len(streams) : streams[i].transport = transport /\ streams[i].open}

\* a tools/call command reaches the tool handler, which runs up to await fetch(...):
\* the request to the TMDB API is in flight for the session the command came from
FetchInFlight(sessionId, transport) ==
    [kind |-> "fetch", sid |-> sessionId, transport |-> transport, sent |-> sessionId]

\* whether handing a command over starts a tool call: the command is tools/call,
\* a server is connected to the transport and the handler gets past its key check
StartsFetch(toolCall, connected) ==
    toolCall /\ connected /\ ~Falsy(proc.TMDB_API_KEY)

HandOver(starts, sessionId, transport) ==
    IF starts
    THEN /\ Len(inflight) < MaxInflight
         /\ proc.calls < MaxCalls
         /\ inflight' = Append(inflight, FetchInFlight(sessionId, transport))
         /\ proc' = [proc EXCEPT !.calls = @ + 1]
    ELSE UNCHANGED <<inflight, proc>>

\* part_000, app.post("/messages")
Messages(sessionId, toolCall) ==
    /\ variant = V_SSE
    /\ IF MapHas(transports, sessionId)
       THEN /\ last' = [Resp0 EXCEPT !.op = "messages", !.status = 202,
                                     !.sent = sessionId, !.known = TRUE,
                                     !.session = sessionId,
                                     !.transport = transports[sessionId],
                                     !.dispatched = TRUE]
            /\ HandOver(StartsFetch(toolCall,
                                    \E i \in 1..Len(streams) :
                                        /\ streams[i].transport = transports[sessionId]
                                        /\ streams[i].connected),
                        sessionId, transports[sessionId])
       ELSE /\ last' = [Resp0 EXCEPT !.op = "messages", !.status = 400,
                                     !.sent = sessionId,
                                     !.error = "No transport found for sessionId"]
            /\ UNCHANGED <<inflight, proc>>
    /\ UNCHANGED <<variant, idBudget, tick, now, nextId, oauthVars, transports, nextTransport,
                   streams, exchanged, advertised>>

\* the request to the TMDB API of the k-th suspended tool call completes: the
\* handler returns (or throws) and the answer is sent on the transport the
\* command came from
ToolReturns(k) ==
    /\ k \in 1..Len(inflight)
    /\ inflight[k].kind = "fetch"
    /\ inflight' = RemoveAt(inflight, k)
    /\ last' = [Resp0 EXCEPT !.op = "result", !.session = inflight[k].sid,
                             !.transport = inflight[k].transport,
                             !.delivered = BoundStreams(inflight[k].transport)]
    /\ UNCHANGED <<variant, idBudget, proc, tick, now, nextId, oauthVars, transports,
                   nextTransport, streams, exchanged, advertised>>

\* server-sse-oauth.js and server-final.js, app.get('/sse')
SseGate(auth) ==
    IF variant = V_FINAL THEN checkAuthCaller(auth) ELSE sseInlineCheck(auth)

AuthSse(auth) ==
    /\ variant \in {V_SSE_OAUTH, V_FINAL}
    /\ IF SseGate(auth).admit
       THEN /\ Len(streams) < MaxStreams
            /\ variant = V_SSE_OAUTH => nextTransport <= MaxTransports
            /\ LET transport == IF variant = V_FINAL THEN GLOBAL_TRANSPORT ELSE nextTransport
               IN /\ streams' = Append(streams, [sid |-> NoValue, transport |-> transport,
                                                 open |-> TRUE, connected |-> FALSE])
                  /\ last' = [Resp0 EXCEPT !.op = "sse", !.status = 200,
                                           !.scheme = auth.scheme,
                                           !.presented = auth.cred,
                                           !.gate = "next", !.transport = transport]
            /\ nextTransport' = IF variant = V_FINAL THEN nextTransport ELSE nextTransport + 1
            /\ UNCHANGED <<transports, inflight>>
       ELSE /\ last' = Rejected("sse", auth, SseGate(auth))
            /\ UNCHANGED sessionVars
    /\ GatePassed(auth)
    /\ UNCHANGED <<variant, idBudget, proc, tick, now, nextId, exchanged, advertised>>

\* server-sse-oauth.js and server-final.js, app.post('/messages')
MessagesGate(auth) ==
    IF variant = V_FINAL THEN checkAuthCaller(auth) ELSE requireAuthSimple(auth)

\* the transport the command is handed to: the one of server-final.js, or
\* new SSEServerTransport('/sse', server) in server-sse-oauth.js
MessagesTransport == IF variant = V_FINAL THEN GLOBAL_TRANSPORT ELSE REQUEST_TRANSPORT

AuthMessages(auth, toolCall) ==
    /\ variant \in {V_SSE_OAUTH, V_FINAL}
    /\ IF MessagesGate(auth).admit
       THEN /\ last' = [Resp0 EXCEPT !.op = "messages", !.status = 200,
                                     !.scheme = auth.scheme,
                                     !.presented = auth.cred,
                                     !.transport = MessagesTransport,
                                     !.gate = "next", !.dispatched = TRUE]
            /\ HandOver(StartsFetch(toolCall, TRUE), NoValue, MessagesTransport)
       ELSE /\ last' = Rejected("messages", auth, MessagesGate(auth))
            /\ UNCHANGED <<inflight, proc>>
    /\ GatePassed(auth)
    /\ UNCHANGED <<variant, idBudget, tick, now, nextId, transports, nextTransport, streams,
                   exchanged, advertised>>

\* res.on("close", () => { delete transports[transport.sessionId] }) is registered
\* in part_000 only; no other entry point registers anything on close
OnClose(reg, sessionId) ==
    IF variant = V_SSE THEN MapDelete(reg, sessionId) ELSE reg

\* the response stream i closes: client disconnect, res.end() or a write error
Close(i) ==
    /\ i \in 1..Len(streams)
    /\ streams[i].open
    /\ streams' = [streams EXCEPT ![i].open = FALSE]
    /\ transports' = OnClose(transports, streams[i].sid)
    /\ last' = [Resp0 EXCEPT !.op = "close", !.session = streams[i].sid,
                             !.transport = streams[i].transport]
    /\ UNCHANGED <<variant, idBudget, proc, tick, now, nextId, nextTransport, oauthVars, inflight,
                   exchanged, advertised>>

----------------------------------------------------------------------------
(* Tool dispatcher: the CallToolRequestSchema handler of every entry point *)
(* and the tool callbacks of part_000.                                     *)

\* what a client may send as params.name
ToolNames == {"search", "fetch", "get_trending", "delete_movie"}

\* the case labels of the switch (name)
KnownTools ==
    IF variant \in {V_HTTP, V_OAUTH, V_OAUTH21}
    THEN {"search", "fetch", "get_recommendations", "get_trending"}
    ELSE {"search", "fetch"}

\* what the TMDB API does with the one request of a tool: it answers 2xx with
\* the data, the connection fails, it answers non-2xx with a JSON error body,
\* or it answers with a body that is not JSON
Upstreams == {"ok", "network_error", "non_2xx", "malformed"}

\* const response = await fetch(url); const data = await response.json();
\* fetch rejects when the connection fails, json() when the body is not JSON;
\* response.ok and response.status are never read
CallTmdb(up) ==
    CASE up = "network_error" ->
           [threw |-> TRUE, message |-> "request to api.themoviedb.org failed", data |-> NoValue]
      [] up = "malformed" ->
           [threw |-> TRUE, message |-> "invalid json response body", data |-> NoValue]
      [] up = "non_2xx" ->
           [threw |-> FALSE, message |-> NoValue, data |-> "status_message"]
      [] OTHER ->
           [threw |-> FALSE, message |-> NoValue, data |-> "movie"]

\* A string the code takes apart is kept as the sequence of its characters.
RECURSIVE Str(_)
Str(chars) == IF chars = <<>> THEN "" ELSE Head(chars) \o Str(Tail(chars))

\* s.split('-')[0]: the characters before the first '-'
RECURSIVE FirstField(_)
FirstField(chars) ==
    IF chars = <<>> \/ Head(chars) = "-" THEN <<>>
    ELSE <<Head(chars)>> \o FirstField(Tail(chars))

\* movie.release_date, a string or undefined
NoDate == [present |-> FALSE, chars |-> <<>>]
DateOf(chars) == [present |-> TRUE, chars |-> chars]

\* movie.release_date?.split('-')[0] || 'Unknown'
ReleaseYear(release_date) ==
    IF ~release_date.present THEN "Unknown"
    ELSE OrElse(Str(FirstField(release_date.chars)), "Unknown")

SEARCH_LIMIT == 10
MOVIE_URL == "https://www.themoviedb.org/movie/"

\* movie => ({ id: movie.id.toString(), title: `${movie.title} (${year})`, url: ... })
SearchEntry(movie) ==
    [id |-> ToString(movie.id),
     title |-> movie.title \o " (" \o ReleaseYear(movie.release_date) \o ")",
     url |-> MOVIE_URL \o ToString(movie.id)]

\* a.slice(0, n)
Slice(a, n) == SubSeq(a, 1, IF Len(a) < n THEN Len(a) ELSE n)

\* data.results?.slice(0, 10).map(...) || []
SearchResults(data) ==
    IF ~data.has_results THEN <<>>
    ELSE [i \in 1..Len(Slice(data.results, SEARCH_LIMIT)) |->
             SearchEntry(Slice(data.results, SEARCH_LIMIT)[i])]

\* a JSON body without a results list: an error body, or another object
NoList == [has_results |-> FALSE, results |-> <<>>]

\* the i-th record of a list the TMDB API answers with: dated, with an empty
\* release_date, or without one
Movie(i) ==
    [id |-> 600 + i,
     title |-> "Movie " \o ToString(i),
     release_date |-> CASE i % 3 = 1 -> DateOf(<<"1", "9", "9", "9", "-", "0", "3", "-", "3", "1">>)
                        [] i % 3 = 2 -> DateOf(<<>>)
                        [] OTHER -> NoDate]

\* what the TMDB API answers a search with: no list, an empty list, one record,
\* two records with the larger id first, a list longer than the limit
SearchBodies ==
    {NoList,
     [has_results |-> TRUE, results |-> <<>>],
     [has_results |-> TRUE, results |-> <<Movie(1)>>],
     [has_results |-> TRUE, results |-> <<Movie(2), Movie(1)>>],
     [has_results |-> TRUE, results |-> [i \in 1..MaxRecords |-> Movie(i)]]}

Bodies(name, up) == IF name = "search" /\ up = "ok" THEN SearchBodies ELSE {NoList}

\* the entry points whose handlers build { results: [...] } and a document
\* from the body; the others return JSON.stringify(data, null, 2)
Reshaping == variant \in {V_FINAL, V_SSE_OAUTH, V_SSE}

NoResult == [shape |-> "none", entries |-> <<>>, payload |-> NoList]

\* the value a handler serialises into the text block of a result
ToolResult(name, data) ==
    IF Reshaping
    THEN IF name = "search"
         THEN [shape |-> "entries", entries |-> SearchResults(data), payload |-> NoList]
         ELSE [shape |-> "document", entries |-> <<>>, payload |-> NoList]
    ELSE [shape |-> "payload", entries |-> <<>>, payload |-> data]

\* the text block of a result: JSON.stringify(data) where the handler returns
\* the body as it is, and JSON.stringify of the fields picked from it (all
\* undefined for an error body) where the handler reshapes it
ResultText(data) ==
    IF variant \in {V_FINAL, V_SSE_OAUTH, V_SSE}
    THEN (IF data = "movie" THEN "{title:movie}" ELSE "{title:undefined}")
    ELSE "{" \o data \o "}"

Envelope(text, isError) == [outcome |-> "envelope", is_error |-> isError, text |-> text, calls |-> 1]
Threw(message, calls) == [outcome |-> "thrown", is_error |-> FALSE, text |-> message, calls |-> calls]

\* server-chatgpt.js: try { switch (name) {...} } catch (error) { return {..., isError: true} }
chatgptHandler(name, up) ==
    IF name \in KnownTools
    THEN IF CallTmdb(up).threw
         THEN Envelope("Error: " \o CallTmdb(up).message, TRUE)
         ELSE Envelope(ResultText(CallTmdb(up).data), FALSE)
    ELSE [Envelope("Error: Unknown tool: " \o name, TRUE) EXCEPT !.calls = 0]

\* 'Tool failed: ' in server-final.js
RethrowPrefix == IF variant = V_FINAL THEN "Tool failed: " ELSE "Tool execution failed: "

KeyRequired ==
    IF variant = V_FINAL THEN "TMDB_API_KEY required"
    ELSE "TMDB_API_KEY environment variable is required"

\* the other entry points: if (!apiKey) throw ...;
\* try { switch (name) {...} } catch (error) { throw new Error(`Tool execution failed: ...`) }
rethrowHandler(name, up) ==
    IF Falsy(proc.TMDB_API_KEY)
    THEN Threw(KeyRequired, 0)
    ELSE IF name \in KnownTools
    THEN IF CallTmdb(up).threw
         THEN Threw(RethrowPrefix \o CallTmdb(up).message, 1)
         ELSE Envelope(ResultText(CallTmdb(up).data), FALSE)
    ELSE Threw(RethrowPrefix \o "Unknown tool: " \o name, 0)

\* part_000, server.tool('search', ...) and server.tool('fetch', ...): the
\* callback has no try/catch
toolCallback(name, up) ==
    IF Falsy(proc.TMDB_API_KEY)
    THEN Threw(KeyRequired, 0)
    ELSE IF CallTmdb(up).threw
    THEN Threw(CallTmdb(up).message, 1)
    ELSE Envelope(ResultText(CallTmdb(up).data), FALSE)

\* part_001, server.tool('search', ...) and server.tool('fetch', ...):
\* try { ... } catch (error) { return { content: [...], isError: true } }
tsToolCallback(name, up) ==
    IF CallTmdb(up).threw
    THEN Envelope((IF name = "search" THEN "Error searching movies: "
                   ELSE "Error fetching movie details: ") \o CallTmdb(up).message, TRUE)
    ELSE Envelope(ResultText(CallTmdb(up).data), FALSE)

ToolHandler(name, up) ==
    CASE variant = V_CHATGPT -> chatgptHandler(name, up)
      [] variant = V_TS -> tsToolCallback(name, up)
      [] variant = V_SSE -> toolCallback(name, up)
      [] OTHER -> rethrowHandler(name, up)

\* a tools/call request reaches the handler
CallTool(name, up, body) ==
    /\ proc.phase = "listening"
    /\ variant \in {V_SSE, V_TS} => name \in KnownTools
    /\ LET r == ToolHandler(name, up)
       IN /\ proc.calls + r.calls <= MaxCalls
          /\ proc' = [proc EXCEPT !.calls = @ + r.calls]
          /\ last' = [Resp0 EXCEPT !.op = "tool", !.tool = name,
                                   !.upstream = IF r.calls = 0 THEN NoValue ELSE up,
                                   !.outcome = r.outcome, !.is_error = r.is_error,
                                   !.text = r.text,
                                   !.body = IF r.calls = 0 THEN NoList ELSE body,
                                   !.result = IF r.outcome = "envelope" /\ ~r.is_error
                                              THEN ToolResult(name, body)
                                              ELSE NoResult]
    /\ UNCHANGED <<variant, idBudget, tick, now, nextId, oauthVars, sessionVars, exchanged, advertised>>

ToolNext ==
    \E name \in ToolNames, up \in Upstreams :
        \E body \in Bodies(name, up) : CallTool(name, up, body)

ToolInit == Init /\ idBudget = MaxIds

ToolSpec == ToolInit /\ [][ToolNext]_vars

----------------------------------------------------------------------------
(* Credential flow: the authorization server and the gate of every entry    *)
(* point that has them.  Requests to the protected endpoints carry the one *)
(* client-chosen session id.                                               *)

Next ==
    \/ Tick
    \/ Register
    \/ \E req \in AuthorizeRequests : Authorize(req)
    \/ \E req \in TokenRequests : Token(req)
    \/ \E req \in AuthorizeRequests : SimpleAuthorize(req)
    \/ \E req \in TokenRequests : SimpleToken(req)
    \/ \E auth \in Headers : McpPost(auth, "s1")
    \/ \E auth \in Headers : AuthSse(auth)
    \/ \E auth \in Headers : AuthMessages(auth, FALSE)

OAuthInit ==
    Init /\ variant \in OAuthVariants /\ idBudget = MaxIds /\ proc.TMDB_API_KEY = API_KEY

Spec == OAuthInit /\ [][Next]_vars

----------------------------------------------------------------------------
(* Session registry: the entry points that keep transports by session id.  *)
(* Where a gate stands in front of /mcp a token is obtained first.         *)

SessionVariants == {V_HTTP, V_SSE, V_OAUTH21, V_OAUTH, V_TS}

SessionTokenRequests ==
    {req \in TokenRequests :
        /\ req.client_id = NoValue
        /\ req.client_secret = NoValue
        /\ req.code_verifier = NoValue
        /\ req.grant_type \in {"client_credentials", "authorization_code"}}

SessionAuthorizeRequests ==
    {req \in AuthorizeRequests : req.redirect_uri = CallbackURL /\ req.client_id = NoValue}

SessionNext ==
    \/ \E req \in SessionAuthorizeRequests : SimpleAuthorize(req)
    \/ \E req \in SessionTokenRequests : Token(req)
    \/ \E req \in SessionTokenRequests : SimpleToken(req)
    \/ \E auth \in Headers, header \in SessionInputs : McpPost(auth, header)
    \/ \E auth \in Headers, header \in SessionInputs : McpGet(auth, header)
    \/ \E header \in SessionInputs : TsMcpPost(header)
    \/ \E k \in 1..MaxInflight, connectOk \in BOOLEAN : TsMcpResume(k, connectOk)
    \/ TsMcpGet
    \/ \E connectOk \in BOOLEAN : SseConnect(connectOk)
    \/ \E sessionId \in SessionInputs : Messages(sessionId, FALSE)
    \/ \E i \in 1..MaxStreams : Close(i)

SessionInit ==
    Init /\ variant \in SessionVariants /\ idBudget = MaxIds /\ proc.TMDB_API_KEY = API_KEY

SessionSpec == SessionInit /\ [][SessionNext]_vars

----------------------------------------------------------------------------
(* Replay: the entry points that keep codes and tokens in one map, with   *)
(* room for a code, the token it buys and one more exchange.               *)

ReplayAuthorizeRequests ==
    {req \in AuthorizeRequests : req.redirect_uri \in {CallbackURL, CallbackWithCodeURL}}

ReplayTokenRequests ==
    {req \in TokenRequests :
        /\ req.grant_type = "authorization_code"
        /\ req.code_verifier = NoValue}

ReplayNext ==
    \/ Tick
    \/ \E req \in ReplayAuthorizeRequests : SimpleAuthorize(req)
    \/ \E req \in ReplayTokenRequests : SimpleToken(req)
    \/ \E auth \in Headers : McpPost(auth, "s1")
    \/ \E auth \in Headers : AuthSse(auth)
    \/ \E auth \in Headers : AuthMessages(auth, FALSE)

ReplayInit ==
    Init /\ variant \in SharedMapVariants /\ idBudget = MaxIds + 1 /\ proc.TMDB_API_KEY = API_KEY

ReplaySpec == ReplayInit /\ [][ReplayNext]_vars

----------------------------------------------------------------------------
(* Concurrent exchanges.  The token handlers are plain functions without   *)
(* await: one runs from its first statement to its response before the     *)
(* next request is looked at, so requests that are in flight together are  *)
(* handled one after the other in some order.  Room for a code, the token  *)
(* it buys and one more.                                                   *)

RaceAuthorizeRequests ==
    {req \in AuthorizeRequests : URLParses(req.redirect_uri) /\ req.state # ""}

RaceTokenRequests ==
    {req \in TokenRequests :
        /\ req.grant_type = "authorization_code"
        /\ req.client_id = NoValue
        /\ req.code_verifier \in {NoValue, "v1"}}

RaceNext ==
    \/ Tick
    \/ \E req \in RaceAuthorizeRequests : Authorize(req)
    \/ \E req \in RaceTokenRequests : Token(req)
    \/ \E req \in RaceAuthorizeRequests : SimpleAuthorize(req)
    \/ \E req \in RaceTokenRequests : SimpleToken(req)

RaceInit ==
    Init /\ variant \in OAuthVariants /\ idBudget = MaxIds + 1 /\ proc.TMDB_API_KEY = API_KEY

RaceSpec == RaceInit /\ [][RaceNext]_vars

----------------------------------------------------------------------------
(* Delivery of results: the two SSE entry points, with tool calls that are *)
(* in flight at the TMDB API while streams open and close.                 *)

DeliveryVariants == {V_SSE, V_SSE_OAUTH}

DeliveryNext ==
    \/ \E req \in SessionAuthorizeRequests : SimpleAuthorize(req)
    \/ \E req \in SessionTokenRequests : SimpleToken(req)
    \/ \E auth \in {NoHeader} : AuthSse(auth)
    \/ \E auth \in Headers, toolCall \in BOOLEAN : AuthMessages(auth, toolCall)
    \/ \E connectOk \in BOOLEAN : SseConnect(connectOk)
    \/ \E sessionId \in SessionInputs, toolCall \in BOOLEAN : Messages(sessionId, toolCall)
    \/ \E k \in 1..MaxInflight : ToolReturns(k)
    \/ \E i \in 1..MaxStreams : Close(i)

DeliveryInit ==
    Init /\ variant \in DeliveryVariants /\ idBudget = MaxIds /\ proc.TMDB_API_KEY = API_KEY

DeliverySpec == DeliveryInit /\ [][DeliveryNext]_vars

----------------------------------------------------------------------------
(* Properties *)

\* where this entry point keeps authorization codes, and access tokens
CodeStore == IF variant = V_OAUTH21 THEN authorizationCodes ELSE tokens
TokenStore == IF variant = V_OAUTH21 THEN accessTokens ELSE tokens

\* the end of the lifetime a token was issued with: its expires_at, or, where the
\* record has none, created_at plus the expires_in of the token response
TokenExpiresAt(rec) ==
    IF variant = V_OAUTH21 THEN rec.expires_at
    ELSE rec.created_at + EXPIRES_IN * 1000

\* C1: once an authorization code has been exchanged it is no longer in the code
\* store, and every later token request presenting it fails with invalid_grant
\* and mints no access token.
C1_SingleUse ==
    /\ [](\A c \in exchanged : ~MapHas(CodeStore, c))
    /\ [][(last'.op = "token" /\ last'.presented \in exchanged)
            => /\ last'.status = 400
               /\ last'.error = "invalid_grant"
               /\ last'.minted = NoValue
               /\ accessTokens' = accessTokens
               /\ tokens' = tokens]_vars

\* C1 witness: an exchanged code was presented again and refused.
C1_Witness ==
    /\ last.op = "token"
    /\ last.presented \in exchanged
    /\ last.error = "invalid_grant"

\* C2: a request presenting an access token after the end of its lifetime is
\* never passed on by the gate, although the record is still in the store.
C2_ExpiredTokenRejected ==
    (/\ last.gate = "next"
     /\ last.scheme = "Bearer"
     /\ MapHas(TokenStore, last.presented))
        => ~(now > TokenExpiresAt(TokenStore[last.presented]))

\* the presented code is stored, not expired, and was stored with a challenge
ChallengedCode(code) ==
    /\ variant = V_OAUTH21
    /\ MapHas(authorizationCodes, code)
    /\ ~(authorizationCodes[code].expires_at < now)
    /\ ~Falsy(authorizationCodes[code].code_challenge)

\* C3: for an unexpired code stored with a challenge, an exchange presenting a
\* verifier whose digest differs from the challenge fails with invalid_grant, and
\* one presenting a verifier whose digest equals it succeeds with an access token.
C3_PkceDecides ==
    [][(/\ last'.op = "token"
        /\ last'.verifier # NoValue
        /\ ChallengedCode(last'.presented))
          => IF Sha256Base64Url(last'.verifier)
                    = authorizationCodes[last'.presented].code_challenge
             THEN last'.status = 200 /\ last'.minted # NoValue
             ELSE last'.status = 400 /\ last'.error = "invalid_grant"]_vars

\* C4: when the stored code carries a challenge, a token is minted only if the
\* request presents a verifier that hashes to that challenge.
C4_ChallengeNeedsVerifier ==
    [][(/\ last'.op = "token"
        /\ last'.minted # NoValue
        /\ ChallengedCode(last'.presented))
          => /\ last'.verifier # NoValue
             /\ Sha256Base64Url(last'.verifier)
                    = authorizationCodes[last'.presented].code_challenge]_vars

\* C8: an authorize request whose redirect_uri is missing or does not parse is
\* answered 400 invalid_redirect_uri, never with a redirect or a 500.
C8_BadRedirectIs400 ==
    (last.op = "authorize" /\ ~URLParses(last.redirect_uri))
        => (last.status = 400 /\ last.error = "invalid_redirect_uri")

\* C9: the gate answers a request without a Bearer header with unauthorized, and
\* one with a Bearer header it does not accept with invalid_token.
C9_GateErrorCodes ==
    last.gate = "rejected"
        => IF last.scheme = "Bearer"
           THEN last.error = "invalid_token"
           ELSE last.error = "unauthorized"

\* C10: a request that goes through a gate, admitted or rejected, leaves the
\* code store, the token store and the client registry as they were.
C10_GateFrame ==
    [][last'.gate \in {"next", "rejected"}
         => /\ authorizationCodes' = authorizationCodes
            /\ accessTokens' = accessTokens
            /\ clients' = clients
            /\ tokens' = tokens]_vars

\* C10 witness: the gate refused a token whose record is still in the store.
C10_Witness ==
    /\ last.gate = "rejected"
    /\ variant = V_OAUTH21
    /\ MapHas(accessTokens, last.presented)

\* two stream-open requests, the i-th and the later j-th, with one session id
SameSessionOpens ==
    {p \in (1..Len(streams)) \X (1..Len(streams)) :
        /\ variant \in McpVariants
        /\ p[1] < p[2]
        /\ streams[p[1]].sid = streams[p[2]].sid}

C6_UnknownSessionFails ==
    (/\ last.op \in {"mcp_post", "messages"}
     /\ last.gate # "rejected"
     /\ last.sent # NoValue
     /\ ~last.known)
        => /\ last.status >= 400
           /\ ~last.created
           /\ ~last.dispatched
           /\ ~MapHas(transports, last.sent)

\* C7: once the stream of a session has closed, the registry has no entry for
\* that session id.
C7_ClosedSessionRemoved ==
    \A i \in 1..Len(streams) :
        ~streams[i].open => ~MapHas(transports, streams[i].sid)

\* C11: once the token endpoint has stored an access token, no later request
\* removes its record or changes it.
C11_TokensReadOnly ==
    [][/\ \A t \in DOMAIN accessTokens :
            t \in DOMAIN accessTokens' /\ accessTokens'[t] = accessTokens[t]
       /\ \A t \in DOMAIN tokens :
            tokens[t].type = "access_token"
                => (t \in DOMAIN tokens' /\ tokens'[t] = tokens[t])]_vars

\* C12: after a successful authorization_code exchange the stored access token
\* has the client_id and the scope of the exchanged code's record, whatever
\* client_id the token request carried, and the response's scope is that scope.
C12_TokenBoundToCode ==
    [][(/\ last'.op = "token"
        /\ last'.status = 200
        /\ last'.presented # NoValue)
          => /\ MapHas(CodeStore, last'.presented)
             /\ MapHas(TokenStore', last'.minted)
             /\ TokenStore'[last'.minted].client_id = CodeStore[last'.presented].client_id
             /\ TokenStore'[last'.minted].scope = CodeStore[last'.presented].scope
             /\ last'.scope = TokenStore'[last'.minted].scope]_vars

\* C12 witness: a code was exchanged by a request naming another client than
\* the one recorded with the code, and the token carries the code's client.
C12_Witness ==
    /\ last.op = "token"
    /\ last.status = 200
    /\ last.presented \in exchanged
    /\ last.client # NoValue
    /\ TokenStore[last.minted].client_id # last.client
    /\ TokenStore[last.minted].scope = last.scope

\* C13: where there is a client registry, the client_id of every stored
\* authorization code and of every stored access token is the id of a
\* registered client.
C13_ClientsExist ==
    variant = V_OAUTH21 =>
        /\ \A c \in DOMAIN authorizationCodes :
              MapHas(clients, authorizationCodes[c].client_id)
        /\ \A t \in DOMAIN accessTokens :
              MapHas(clients, accessTokens[t].client_id)

\* the end of the ten minutes an authorization code is issued for
CodeExpiresAt(rec) ==
    IF variant = V_OAUTH21 THEN rec.expires_at
    ELSE rec.created_at + CODE_TTL_MS

\* C14: an authorization_code exchange presenting a code that is not stored, or
\* one stored more than ten minutes ago, fails with invalid_grant and mints no
\* access token.
C14_StaleCodeRejected ==
    [][(/\ last'.op = "token"
        /\ last'.presented # NoValue
        /\ \/ ~MapHas(CodeStore, last'.presented)
           \/ now > CodeExpiresAt(CodeStore[last'.presented]))
          => /\ last'.status = 400
             /\ last'.error = "invalid_grant"
             /\ last'.minted = NoValue
             /\ accessTokens' = accessTokens
             /\ tokens' = tokens]_vars

\* C15: a token request whose grant_type is neither authorization_code nor
\* client_credentials fails with unsupported_grant_type and leaves the code
\* and token stores as they were.
C15_OtherGrantUnsupported ==
    [][(/\ last'.op = "token"
        /\ last'.grant \notin {"authorization_code", "client_credentials"})
          => /\ last'.status = 400
             /\ last'.error = "unsupported_grant_type"
             /\ last'.minted = NoValue
             /\ authorizationCodes' = authorizationCodes
             /\ accessTokens' = accessTokens
             /\ tokens' = tokens]_vars

\* C15 witness: a refresh_token request was refused while a code was stored.
C15_Witness ==
    /\ last.op = "token"
    /\ last.grant = "refresh_token"
    /\ last.error = "unsupported_grant_type"
    /\ DOMAIN CodeStore # {}

\* the values a query string carries for a key, in order
ParamValues(q, k) ==
    LET hits == SelectSeq(q, LAMBDA p : p[1] = k)
    IN [i \in 1..Len(hits) |-> hits[i][2]]

\* C16: an authorize request with a parsable redirect_uri is redirected to that
\* redirect_uri with the one parameter code, the code just stored, and with the
\* one parameter state, as supplied, when a state was supplied and none when it
\* was not; a stored, unexpired code presented without a verifier is exchanged
\* for a token with expires_in 3600.
C16_RedirectCarriesCodeAndState ==
    /\ []((last.op = "authorize" /\ URLParses(last.redirect_uri))
            => /\ last.status = 302
               /\ last.location.scheme = last.redirect_uri.scheme
               /\ last.location.rest = last.redirect_uri.rest
               /\ MapHas(CodeStore, last.minted)
               /\ ParamValues(last.location.query, "code") = <<last.minted>>
               /\ ParamValues(last.location.query, "state")
                     = IF last.state = NoValue THEN <<>> ELSE <<last.state>>)
    /\ [][(/\ last'.op = "token"
           /\ last'.grant = "authorization_code"
           /\ last'.verifier = NoValue
           /\ MapHas(CodeStore, last'.presented)
           /\ ~(now > CodeExpiresAt(CodeStore[last'.presented])))
             => /\ last'.status = 200
                /\ last'.minted # NoValue
                /\ last'.expires_in = EXPIRES_IN]_vars

\* C17: a tool call whose request to the TMDB API failed (the connection failed,
\* the answer was non-2xx or the body was not JSON) ends with a result envelope
\* that has isError set and a non-empty text block; the handler does not throw.
C17_FailureIsErrorEnvelope ==
    (last.op = "tool" /\ last.upstream \in Upstreams \ {"ok"})
        => /\ last.outcome = "envelope"
           /\ last.is_error
           /\ ~Falsy(last.text)

\* the messages a handler gives for a name its switch does not know
UnknownToolMessages(name) ==
    {prefix \o "Unknown tool: " \o name :
        prefix \in {"", "Error: ", "Tool failed: ", "Tool execution failed: "}}

\* C18: a tool call with a name outside the handler's tool names fails with the
\* unknown-tool error thrown to the dispatcher, makes no request to the TMDB
\* API, and is not answered with a result envelope.
C18_UnknownToolThrows ==
    (last.op = "tool" /\ last.tool \notin KnownTools)
        => /\ last.outcome = "thrown"
           /\ last.text \in UnknownToolMessages(last.tool)
           /\ last.upstream = NoValue

\* C19: a process that accepts requests has its TMDB API key, and no tool call
\* ends with the key-is-required failure.
C19_NoKeyNoServer ==
    /\ proc.phase = "listening" => ~Falsy(proc.TMDB_API_KEY)
    /\ last.op = "tool" => last.text # KeyRequired

\* C22: in the OAuth 2.1 server every client_credentials token request, whatever
\* client_id and client_secret it carries, is answered 200 with a fresh access
\* token, token_type Bearer, expires_in 3600 and the fixed read scope, and the
\* one record it adds to the token store expires one hour after the request.
C22_ClientCredentialsGranted ==
    [][(/\ variant = V_OAUTH21
        /\ last'.op = "token"
        /\ last'.grant = "client_credentials")
          => /\ last'.status = 200
             /\ last'.minted \notin DOMAIN accessTokens
             /\ DOMAIN accessTokens' = DOMAIN accessTokens \cup {last'.minted}
             /\ \A t \in DOMAIN accessTokens : accessTokens'[t] = accessTokens[t]
             /\ accessTokens'[last'.minted].expires_at = now + TOKEN_TTL_MS
             /\ accessTokens'[last'.minted].scope = DEFAULT_SCOPE
             /\ last'.token_type = "Bearer"
             /\ last'.expires_in = EXPIRES_IN
             /\ last'.scope = DEFAULT_SCOPE]_vars

\* C22 witness: a client_credentials request naming an unregistered client and
\* carrying a secret nobody issued was granted a token.
C22_Witness ==
    /\ last.op = "token"
    /\ last.grant = "client_credentials"
    /\ last.client = "rogue"
    /\ ~MapHas(clients, last.client)
    /\ last.secret = "wrong"
    /\ last.status = 200
    /\ MapHas(accessTokens, last.minted)

\* C27: in the shared-map servers a token request that presents a stored access
\* token as its code fails with invalid_grant, mints nothing and leaves the map,
\* the presented token included, as it was.
C27_TokenIsNoCode ==
    [][(/\ variant \in SharedMapVariants
        /\ last'.op = "token"
        /\ last'.grant = "authorization_code"
        /\ MapHas(tokens, last'.presented)
        /\ tokens[last'.presented].type = "access_token")
          => /\ last'.status = 400
             /\ last'.error = "invalid_grant"
             /\ last'.minted = NoValue
             /\ tokens' = tokens]_vars

\* the requests that pass a gate in a shared-map server
SharedGateOps == {"mcp_post", "sse", "messages"}

\* C30: in the shared-map servers a gate lets a Bearer credential through only
\* when the map holds it with type access_token; a stored authorization code
\* presented as Bearer credential is answered 401.
C30_CodeIsNoBearer ==
    (/\ variant \in SharedMapVariants
     /\ last.op \in SharedGateOps
     /\ last.scheme = "Bearer")
        => /\ last.gate = "next"
              => /\ MapHas(tokens, last.presented)
                 /\ tokens[last.presented].type = "access_token"
           /\ (MapHas(tokens, last.presented) /\ tokens[last.presented].type # "access_token")
              => /\ last.gate = "rejected"
                 /\ last.status = 401
                 /\ ~last.dispatched

\* C30 witness: a stored, unexchanged authorization code was presented as
\* Bearer credential and refused.
C30_Witness ==
    /\ variant \in SharedMapVariants
    /\ last.op \in SharedGateOps
    /\ last.scheme = "Bearer"
    /\ MapHas(tokens, last.presented)
    /\ tokens[last.presented].type # "access_token"
    /\ last.presented \notin exchanged
    /\ last.gate = "rejected"

\* C28: in the OAuth 2.1 server a token request that is refused leaves the
\* code, token and client stores as they were, and a stored, unexpired code
\* presented with the verifier of its challenge is exchanged, whatever was
\* refused before.
C28_RefusalKeepsStores ==
    [][(/\ variant = V_OAUTH21
        /\ last'.op = "token")
          => /\ last'.status # 200
                => /\ authorizationCodes' = authorizationCodes
                   /\ accessTokens' = accessTokens
                   /\ clients' = clients
             /\ (/\ last'.grant = "authorization_code"
                 /\ MapHas(authorizationCodes, last'.presented)
                 /\ ~(authorizationCodes[last'.presented].expires_at < now)
                 /\ last'.verifier \in Verifiers
                 /\ Sha256Base64Url(last'.verifier)
                       = authorizationCodes[last'.presented].code_challenge)
                => /\ last'.status = 200
                   /\ MapHas(accessTokens', last'.minted)]_vars

\* C28 witness: an exchange was refused for a verifier that does not match the
\* challenge of a stored, unexpired code, and the code is still stored.
C28_Witness ==
    /\ variant = V_OAUTH21
    /\ last.op = "token"
    /\ last.error = "invalid_grant"
    /\ MapHas(authorizationCodes, last.presented)
    /\ ~(authorizationCodes[last.presented].expires_at < now)
    /\ last.verifier \in Verifiers
    /\ Sha256Base64Url(last.verifier) # authorizationCodes[last.presented].code_challenge

\* a stored value the authorize endpoint issued as a code
IsStoredCode(v) ==
    /\ MapHas(CodeStore, v)
    /\ variant \in SharedMapVariants => CodeStore[v].type # "access_token"

\* C25: of the token requests that present one authorization code, in whatever
\* order the handler takes them, at most one is granted and it mints exactly
\* one access token; every request that presents the code after that fails
\* with invalid_grant and mints nothing.
C25_OneGrantPerCode ==
    [][(/\ last'.op = "token"
        /\ last'.grant = "authorization_code")
          => /\ (last'.status = 200 /\ IsStoredCode(last'.presented))
                => /\ last'.presented \notin exchanged
                   /\ last'.minted \notin DOMAIN TokenStore
                   /\ DOMAIN TokenStore' \ DOMAIN TokenStore = {last'.minted}
             /\ last'.presented \in exchanged
                => /\ last'.status = 400
                   /\ last'.error = "invalid_grant"
                   /\ last'.minted = NoValue
                   /\ DOMAIN TokenStore' \ DOMAIN TokenStore = {}]_vars

\* C25 witness: a code bought one token, and a further request presenting it
\* was refused although an id for another token was there to be drawn.
C25_Witness ==
    /\ last.op = "token"
    /\ last.presented \in exchanged
    /\ last.error = "invalid_grant"
    /\ nextId <= idBudget
    /\ Cardinality({t \in DOMAIN TokenStore :
                      variant \in SharedMapVariants => TokenStore[t].type = "access_token"}) = 1

\* C23: a response of a session endpoint that a transport served carries, as
\* Mcp-Session-Id, the id the registry holds that transport under: the id the
\* client sent, or, when it sent none, a new id whose registry entry this
\* request created.
C23_ResponseCarriesSessionId ==
    (/\ last.op \in {"mcp_post", "mcp_get"}
     /\ last.status = 200)
        => /\ last.header = last.session
           /\ MapHas(transports, last.session)
           /\ transports[last.session] = last.transport
           /\ IF Falsy(last.sent)
              THEN last.created /\ last.session \in Issued
              ELSE last.session = last.sent

\* the requests to /mcp that got past the gate, at any step of their handler
McpHandled(l) ==
    /\ variant \in McpVariants \cup {V_TS}
    /\ l.op \in {"mcp_post", "mcp_get"}
    /\ l.gate # "rejected"
    /\ l.session # NoValue

\* C29: however requests carrying one session id interleave, a transport is
\* constructed for the id only by a request that finds no registry entry for
\* it, that transport is stored under the id and the entry is never rebound,
\* and every request is handed to the transport the registry holds for its id,
\* a request resumed after an await included.
C29_GetOrCreateAtomic ==
    [][/\ \A s \in DOMAIN transports \cap DOMAIN transports' :
              transports'[s] = transports[s]
       /\ McpHandled(last')
            => /\ MapHas(transports', last'.session)
               /\ last'.transport = transports'[last'.session]
               /\ IF MapHas(transports, last'.session)
                  THEN /\ transports' = transports
                       /\ nextTransport' = nextTransport
                  ELSE /\ transports' = MapSet(transports, last'.session, nextTransport)
                       /\ nextTransport' = nextTransport + 1]_vars

\* C29 witness: while the request that created the transport of a session id
\* was waiting at its await, a second request with that id was handed to the
\* same transport.
C29_Witness ==
    /\ last.op = "mcp_post"
    /\ last.known
    /\ last.dispatched
    /\ \E k \in 1..Len(inflight) :
          /\ inflight[k].kind = "connect"
          /\ inflight[k].sid = last.session
          /\ inflight[k].transport = last.transport

\* the open streams of a session
OpenStreamsOf(sessionId) ==
    {i \in 1..Len(streams) : streams[i].sid = sessionId /\ streams[i].open}

\* C21: the result of a command posted for a session is written to the open
\* stream of that session and to no other stream, in whatever order commands
\* of several open sessions are posted and answered.
C21_ResultOnOwnStream ==
    last.op = "result" => last.delivered = OpenStreamsOf(last.session)

\* C26: closing a stream leaves the tool calls that are in flight at the TMDB
\* API in flight, each of them can still complete, and a result that
\* arrives after its session's stream closed is written to no stream.
C26_CloseDiscardsResult ==
    /\ [](\A k \in 1..Len(inflight) :
            inflight[k].kind = "fetch" => ENABLED ToolReturns(k))
    /\ [](last.op = "result"
            => /\ \A i \in last.delivered :
                     streams[i].open /\ streams[i].transport = last.transport
               /\ (\E i \in 1..Len(streams) :
                     streams[i].transport = last.transport /\ ~streams[i].open)
                  => last.delivered = {})
    /\ [][last'.op = "close" => (inflight' = inflight /\ proc' = proc)]_vars

\* C26 witness: a result arrived after the stream of its session had closed,
\* while the stream of another session was open, and was written to neither.
C26_Witness ==
    /\ variant = V_SSE
    /\ last.op = "result"
    /\ last.delivered = {}
    /\ \E i, j \in 1..Len(streams) :
          /\ streams[i].transport = last.transport
          /\ streams[i].sid = last.session
          /\ ~streams[i].open
          /\ streams[j].open

\* the first four characters of a date string, the year of YYYY-MM-DD
YearOf(chars) == Str(SubSeq(chars, 1, 4))

\* C24: for a search the TMDB API answered with a list of records the tool
\* returns one entry per record, in the order of the list, each with the
\* record's id as a string, the URL prefix followed by the id and, for a dated
\* record, the title followed by the release year in parentheses; for an
\* answer without a results list it returns the empty list.
C24_SearchMapsEveryRecord ==
    (last.op = "tool" /\ last.tool = "search" /\ last.upstream = "ok")
        => /\ last.outcome = "envelope"
           /\ last.result.shape = "entries"
           /\ Len(last.result.entries) = Len(last.body.results)
           /\ \A i \in 1..Len(last.body.results) :
                 LET movie == last.body.results[i]
                     entry == last.result.entries[i]
                 IN /\ entry.id = ToString(movie.id)
                    /\ entry.url = MOVIE_URL \o ToString(movie.id)
                    /\ Len(movie.release_date.chars) >= 4
                          => entry.title = movie.title \o " ("
                                             \o YearOf(movie.release_date.chars) \o ")"

\* C31: an authorize request answered invalid_redirect_uri leaves the
\* authorization-code store as it was: no code record is stored for a request
\* that was not redirected.
C31_FailedAuthorizeStoresNothing ==
    [][(last'.op = "authorize" /\ last'.error = "invalid_redirect_uri")
           => CodeStore' = CodeStore]_vars

\* the endpoints behind the gate: the session registry and the tool dispatcher
ProtectedOps == {"mcp_post", "mcp_get", "sse", "messages"}

\* the request of this step presented, as a Bearer credential, a token that is
\* in the token store and whose lifetime has not ended
PresentedLiveToken ==
    /\ last'.scheme = "Bearer"
    /\ MapHas(TokenStore', last'.presented)
    /\ now' <= TokenExpiresAt(TokenStore'[last'.presented])

\* C32: in the authenticated entry points every request that reaches the
\* handler of a protected endpoint, and so every request that creates a
\* registry entry, opens a stream or has a command dispatched, presented an
\* access token that was stored and unexpired at that moment; a session opened
\* earlier gives no later request a way round the gate.
C32_OnlyThroughGate ==
    [][(/\ variant \in OAuthVariants
        /\ tick' = tick
        /\ last'.op \in ProtectedOps
        /\ \/ last'.gate = "next"
           \/ last'.created
           \/ last'.dispatched)
           => PresentedLiveToken]_vars

\* C33: an access token is admitted by the gate at every time up to the end of
\* the lifetime its token response advertised (expires_in seconds after it was
\* issued) and rejected at every time after it.
C33_AdvertisedLifetimeEnforced ==
    [][(/\ tick' = tick
        /\ last'.op \in ProtectedOps
        /\ last'.scheme = "Bearer"
        /\ MapHas(advertised', last'.presented)
        /\ MapHas(TokenStore', last'.presented))
           => (last'.gate = "next" <=> now' <= advertised'[last'.presented])]_vars

\* C34: when connecting a newly created transport to the MCP server has failed,
\* the registry holds no entry for that session id, so that no later request
\* with the id is handed to the unconnected transport; and every transport the
\* registry of part_000 holds belongs to a stream whose connect succeeded.
C34_RegistryHoldsConnected ==
    /\ (/\ variant \in {V_TS, V_SSE}
        /\ last.op \in {"mcp_post", "sse"}
        /\ last.status = 500)
           => ~MapHas(transports, last.session)
    /\ variant = V_SSE
           => \A sid \in DOMAIN transports :
                 \E i \in 1..Len(streams) :
                     /\ streams[i].transport = transports[sid]
                     /\ streams[i].connected

====
